---- MODULE Spec2Model ----
(***************************************************************************)
(* A model of the chess move engine: the Board (src/src/chess.rs), the     *)
(* move notation codec and the move legality rules (src/src/mover.rs).     *)
(*                                                                         *)
(* Representation.  Option<T> is a sequence of length 0 (None) or 1        *)
(* (Some(x) is <<x>>).  A &str / String is the sequence of its character   *)
(* codes.  A Result<(), Error> is a record [kind, msg, arg]: kind is "Ok", *)
(* "InvalidMove" or "Panic" (the process aborts), msg is the message of    *)
(* the error and arg the number formatted into it (0 when there is none).  *)
(***************************************************************************)
EXTENDS Integers, Sequences, FiniteSets, TLC

VARIABLES board, result, accepted, saved, input, decoded

vars == <<board, result, accepted, saved, input, decoded>>

(***************************************************************************)
(* Bounds of the model.                                                    *)
(***************************************************************************)
\* accepted moves per game explored by Spec
MaxPly == 5

\* accepted moves per game explored by SpecCastle
MaxPlyCastle == 9

(***************************************************************************)
(* Types of chess.rs                                                       *)
(***************************************************************************)
White == "White"

Black == "Black"

Pawn == "Pawn"

Knight == "Knight"

Bishop == "Bishop"

Rook == "Rook"

Queen == "Queen"

King == "King"

None == << >>

Some(x) == << x >>

is_some(o) == o # None

is_none(o) == o = None

unwrap(o) == o[1]

Piece_new(class, color) == [class |-> class, color |-> color, moves |-> 0]

OkRes == [kind |-> "Ok", msg |-> "", arg |-> 0]

InvalidMove(msg) == [kind |-> "InvalidMove", msg |-> msg, arg |-> 0]

InvalidMoveArg(msg, n) == [kind |-> "InvalidMove", msg |-> msg, arg |-> n]

PanicRes == [kind |-> "Panic", msg |-> "", arg |-> 0]

abs(x) == IF x < 0 THEN -x ELSE x

\* an index a [[Option<Piece>; 8]; 8] can be read at without a panic
in_bounds(file, rank) == file \in 0..7 /\ rank \in 0..7

Board_new ==
  [ pieces |-> [f \in 0..7 |-> [r \in 0..7 |-> None]],
    turn |-> White,
    captured |-> << >>,
    moves |-> << >>,
    white_can_castle_kingside |-> TRUE,
    white_can_castle_queenside |-> TRUE,
    black_can_castle_kingside |-> TRUE,
    black_can_castle_queenside |-> TRUE,
    en_passant |-> None,
    halfmove_clock |-> 0,
    fullmove_number |-> 1 ]

get_piece(self, file, rank) == self.pieces[file][rank]

set_piece(self, piece, file, rank) ==
  [self EXCEPT !.pieces[file][rank] = Some(piece)]

clear_piece(self, file, rank) ==
  [self EXCEPT !.pieces[file][rank] = None]

is_en_passant(self, file, rank) ==
  IF is_some(self.en_passant)
  THEN file = unwrap(self.en_passant)[1] /\ rank = unwrap(self.en_passant)[2]
  ELSE FALSE

(***************************************************************************)
(* chess.rs: Board::from_fen                                               *)
(***************************************************************************)
InvalidFen(msg) == [kind |-> "InvalidFen", msg |-> msg, arg |-> 0]

\* str::split(sep) for a one-character separator: the pieces between the
\* separators, empty ones included; piece is the piece read so far
RECURSIVE split(_, _, _)
split(s, sep, piece) ==
  IF s = << >> THEN << piece >>
  ELSE IF Head(s) = sep THEN << piece >> \o split(Tail(s), sep, << >>)
  ELSE split(Tail(s), sep, Append(piece, Head(s)))

\* str::contains for a one-character pattern
contains(s, c) == \E i \in 1..Len(s) : s[i] = c

\* the value of a non-empty string of digits, read after the value so far
RECURSIVE digits_value(_, _)
digits_value(s, value) ==
  IF s = << >> THEN value
  ELSE digits_value(Tail(s), 10 * value + (Head(s) - 48))

\* str::parse::<usize>: an optional '+' and at least one digit, else Err (None).
\* A value above usize::MAX is an Err as well; the numeric fields of the
\* model have at most two digits.
parse_usize(s) ==
  LET digits == IF s # << >> /\ Head(s) = 43 THEN Tail(s) ELSE s
  IN IF digits # << >> /\ \A i \in 1..Len(digits) : digits[i] \in 48..57
     THEN Some(digits_value(digits, 0))
     ELSE None

\* fen_piece with the colours of the two cases exchanged
fen_piece_swapped(c) ==
  CASE c = 80 -> Some(Piece_new(Pawn, Black))
    [] c = 78 -> Some(Piece_new(Knight, Black))
    [] c = 66 -> Some(Piece_new(Bishop, Black))
    [] c = 82 -> Some(Piece_new(Rook, Black))
    [] c = 81 -> Some(Piece_new(Queen, Black))
    [] c = 75 -> Some(Piece_new(King, Black))
    [] c = 112 -> Some(Piece_new(Pawn, White))
    [] c = 110 -> Some(Piece_new(Knight, White))
    [] c = 98 -> Some(Piece_new(Bishop, White))
    [] c = 114 -> Some(Piece_new(Rook, White))
    [] c = 113 -> Some(Piece_new(Queen, White))
    [] c = 107 -> Some(Piece_new(King, White))
    [] OTHER -> None

\* `let piece = match c { 'P' => .., _ => return Err(..) }`: P N B R Q K and
\* p n b r q k; None stands for the arm that returns the error
fen_piece(c) ==
  CASE c = 80 -> Some(Piece_new(Pawn, White))
    [] c = 78 -> Some(Piece_new(Knight, White))
    [] c = 66 -> Some(Piece_new(Bishop, White))
    [] c = 82 -> Some(Piece_new(Rook, White))
    [] c = 81 -> Some(Piece_new(Queen, White))
    [] c = 75 -> Some(Piece_new(King, White))
    [] c = 112 -> Some(Piece_new(Pawn, Black))
    [] c = 110 -> Some(Piece_new(Knight, Black))
    [] c = 98 -> Some(Piece_new(Bishop, Black))
    [] c = 114 -> Some(Piece_new(Rook, Black))
    [] c = 113 -> Some(Piece_new(Queen, Black))
    [] c = 107 -> Some(Piece_new(King, Black))
    [] OTHER -> None

\* `for c in row.chars() { .. }` from the given file on; set_piece at a file
\* above 7 indexes outside the grid and panics
RECURSIVE place_row(_, _, _, _)
place_row(b, row, file, rank) ==
  IF row = << >> THEN [res |-> OkRes, b |-> b]
  ELSE IF Head(row) \in 48..57
  THEN place_row(b, Tail(row), file + (Head(row) - 48), rank)
  ELSE IF is_none(fen_piece(Head(row)))
  THEN [res |-> InvalidFen("invalid piece"), b |-> b]
  ELSE IF ~in_bounds(file, rank)
  THEN [res |-> PanicRes, b |-> b]
  ELSE place_row(set_piece(b, unwrap(fen_piece(Head(row))), file, rank),
                 Tail(row), file + 1, rank)

\* `for row in rows { .. file = 0; if rank > 0 { rank -= 1; } }`
RECURSIVE place_rows(_, _, _)
place_rows(b, rows, rank) ==
  IF rows = << >> THEN [res |-> OkRes, b |-> b]
  ELSE LET placed == place_row(b, Head(rows), 0, rank)
       IN IF placed.res.kind # "Ok" THEN placed
          ELSE place_rows(placed.b, Tail(rows), IF rank > 0 THEN rank - 1 ELSE rank)

\* the en-passant field: `if en_passant != &"-" { .. }`
fen_en_passant(b, field) ==
  IF field = << 45 >> THEN [res |-> OkRes, b |-> b]
  ELSE IF Len(field) < 1
  THEN [res |-> InvalidFen("missing en passant file"), b |-> b]
  ELSE IF field[1] \notin 97..104
  THEN [res |-> InvalidFen("invalid en passant file"), b |-> b]
  ELSE IF Len(field) < 2
  THEN [res |-> InvalidFen("missing en passant rank"), b |-> b]
  ELSE IF field[2] \notin {51, 54}
  THEN [res |-> InvalidFen("invalid en passant rank"), b |-> b]
  ELSE [res |-> OkRes,
        b |-> [b EXCEPT !.en_passant =
                 Some(<< field[1] - 97, IF field[2] = 51 THEN 2 ELSE 5 >>)]]

\* Board::from_fen: the result and the board it leaves, which on an error
\* holds the fields assigned before the return
from_fen(self, data) ==
  LET parts == split(data, 32, << >>)
      moves == parts[1]
      b0 == Board_new
  IN IF Len(parts) < 2 THEN [res |-> InvalidFen("missing start"), b |-> b0]
     ELSE IF parts[2] \notin { << 119 >>, << 98 >> }
     THEN [res |-> InvalidFen("invalid start"), b |-> b0]
     ELSE LET b1 == [b0 EXCEPT !.turn = IF parts[2] = << 119 >> THEN White ELSE Black]
     IN IF Len(parts) < 3 THEN [res |-> InvalidFen("missing castling"), b |-> b1]
     ELSE LET b2 == [b1 EXCEPT !.white_can_castle_kingside = contains(parts[3], 75),
                               !.white_can_castle_queenside = contains(parts[3], 81),
                               !.black_can_castle_kingside = contains(parts[3], 107),
                               !.black_can_castle_queenside = contains(parts[3], 113)]
     IN IF Len(parts) < 4 THEN [res |-> InvalidFen("missing en passant"), b |-> b2]
     ELSE LET e == fen_en_passant(b2, parts[4])
     IN IF e.res.kind # "Ok" THEN e
     ELSE IF Len(parts) < 5 THEN [res |-> InvalidFen("missing halfmove"), b |-> e.b]
     ELSE IF is_none(parse_usize(parts[5]))
     THEN [res |-> InvalidFen("invalid halfmove clock"), b |-> e.b]
     ELSE LET b4 == [e.b EXCEPT !.halfmove_clock = unwrap(parse_usize(parts[5]))]
     IN IF Len(parts) < 6 THEN [res |-> InvalidFen("missing fullmove"), b |-> b4]
     ELSE IF is_none(parse_usize(parts[6]))
     THEN [res |-> InvalidFen("invalid fullmove number"), b |-> b4]
     ELSE place_rows([b4 EXCEPT !.fullmove_number = unwrap(parse_usize(parts[6]))],
                     split(moves, 47, << >>), 7)

\* "rnbqkbnr/pppppppp/8/8/8/8/PPPPPPPP/RNBQKBNR w KQkq - 0 1"
DEFAULT_BOARD ==
  <<
     114, 110, 98, 113, 107, 98, 110, 114, 47, 112, 112, 112, 112, 112,
     112, 112, 112, 47, 56, 47, 56, 47, 56, 47, 56, 47, 80, 80,
     80, 80, 80, 80, 80, 80, 47, 82, 78, 66, 81, 75, 66, 78,
     82, 32, 119, 32, 75, 81, 107, 113, 32, 45, 32, 48, 32, 49
  >>

\* Board::default_board: Board::new() and from_fen(DEFAULT_BOARD)
default_board == from_fen(Board_new, DEFAULT_BOARD).b

(***************************************************************************)
(* mover.rs: Move and the notation codec                                   *)
(***************************************************************************)
Move_new(from_file, from_rank, to_file, to_rank) ==
  [from_file |-> from_file, from_rank |-> from_rank,
   to_file |-> to_file, to_rank |-> to_rank]

distance(m) == abs(m.from_file - m.to_file) + abs(m.from_rank - m.to_rank)

\* char::to_lowercase on an ASCII code
to_lowercase(c) == IF c \in 65..90 THEN c + 32 ELSE c

\* str::trim on ASCII: strips leading and trailing whitespace
is_whitespace(c) == c \in {9, 10, 11, 12, 13, 32}

RECURSIVE trim_start(_)
trim_start(s) ==
  IF s # << >> /\ is_whitespace(Head(s)) THEN trim_start(Tail(s)) ELSE s

RECURSIVE trim_end(_)
trim_end(s) ==
  IF s # << >> /\ is_whitespace(s[Len(s)])
  THEN trim_end(SubSeq(s, 1, Len(s) - 1)) ELSE s

trim(s) == trim_end(trim_start(s))

\* impl From<Move> for String
String_from(m) ==
  << m.from_file + 97, m.from_rank + 49, m.to_file + 97, m.to_rank + 49 >>

\* try_from without the to_lowercase of its first line
try_from_case_sensitive(s) ==
  IF Len(s) < 4 THEN { [res |-> PanicRes, m |-> Move_new(0, 0, 0, 0)] }
  ELSE
    LET c(i) == s[i]
        underflow == c(1) < 97 \/ c(2) < 49 \/ c(3) < 97 \/ c(4) < 49
        from_file == c(1) - 97
        from_rank == c(2) - 49
        to_file == c(3) - 97
        to_rank == c(4) - 49
        out_of_bounds ==
          [res |-> InvalidMove("Move is out of bounds"), m |-> Move_new(0, 0, 0, 0)]
    IN IF underflow
       THEN { [res |-> PanicRes, m |-> Move_new(0, 0, 0, 0)], out_of_bounds }
       ELSE IF from_file > 7 \/ from_rank > 7 \/ to_file > 7 \/ to_rank > 7
       THEN { out_of_bounds }
       ELSE { [res |-> OkRes, m |-> Move_new(from_file, from_rank, to_file, to_rank)] }

\* impl TryFrom<&str> for Move.  The set of outcomes: `c as usize - 97` below
\* the offset panics where overflow is checked and wraps to a huge index
\* (then out of bounds) where it is not.
try_from(s) ==
  IF Len(s) < 4 THEN { [res |-> PanicRes, m |-> Move_new(0, 0, 0, 0)] }
  ELSE
    LET c(i) == to_lowercase(s[i])
        underflow == c(1) < 97 \/ c(2) < 49 \/ c(3) < 97 \/ c(4) < 49
        from_file == c(1) - 97
        from_rank == c(2) - 49
        to_file == c(3) - 97
        to_rank == c(4) - 49
        out_of_bounds ==
          [res |-> InvalidMove("Move is out of bounds"), m |-> Move_new(0, 0, 0, 0)]
    IN IF underflow
       THEN { [res |-> PanicRes, m |-> Move_new(0, 0, 0, 0)], out_of_bounds }
       ELSE IF from_file > 7 \/ from_rank > 7 \/ to_file > 7 \/ to_rank > 7
       THEN { out_of_bounds }
       ELSE { [res |-> OkRes, m |-> Move_new(from_file, from_rank, to_file, to_rank)] }

(***************************************************************************)
(* mover.rs: the per-class rules.  Each returns a Result.                  *)
(***************************************************************************)
\* validate_pawn without the file check of a move onto an empty square
validate_pawn_sideways(m, b) ==
  LET piece == unwrap(get_piece(b, m.from_file, m.from_rank))
      from_file == m.from_file
      from_rank == m.from_rank
      to_file == m.to_file
      to_rank == m.to_rank
      at_to == get_piece(b, m.to_file, m.to_rank)
      target == IF is_some(at_to)
                THEN (IF unwrap(at_to).color = piece.color THEN None ELSE at_to)
                ELSE None
  IN IF piece.color = White /\ m.to_rank < m.from_rank
     THEN InvalidMove("Pawn can only move forward")
     ELSE IF piece.color = Black /\ m.to_rank > m.from_rank
     THEN InvalidMove("Pawn can only move forward")
     ELSE IF piece.moves = 0
             /\ (abs(to_rank - from_rank) > 2 \/ abs(to_rank - from_rank) < 1)
     THEN InvalidMoveArg("Pawn can only move one or two squares forward on the first move, attempted to move {} squares",
                         abs(to_rank - from_rank))
     ELSE IF piece.moves # 0 /\ abs(to_rank - from_rank) # 1
     THEN InvalidMove("Pawn can only move one square forward")
     ELSE IF is_some(target)
     THEN (IF abs(to_file - from_file) # 1
           THEN InvalidMove("Pawn can only capture diagonally")
           ELSE OkRes)
     ELSE IF is_en_passant(b, m.to_file, m.to_rank)
     THEN OkRes
     ELSE OkRes

validate_pawn(m, b) ==
  LET piece == unwrap(get_piece(b, m.from_file, m.from_rank))
      from_file == m.from_file
      from_rank == m.from_rank
      to_file == m.to_file
      to_rank == m.to_rank
      at_to == get_piece(b, m.to_file, m.to_rank)
      target == IF is_some(at_to)
                THEN (IF unwrap(at_to).color = piece.color THEN None ELSE at_to)
                ELSE None
  IN IF piece.color = White /\ m.to_rank < m.from_rank
     THEN InvalidMove("Pawn can only move forward")
     ELSE IF piece.color = Black /\ m.to_rank > m.from_rank
     THEN InvalidMove("Pawn can only move forward")
     ELSE IF piece.moves = 0
             /\ (abs(to_rank - from_rank) > 2 \/ abs(to_rank - from_rank) < 1)
     THEN InvalidMoveArg("Pawn can only move one or two squares forward on the first move, attempted to move {} squares",
                         abs(to_rank - from_rank))
     ELSE IF piece.moves # 0 /\ abs(to_rank - from_rank) # 1
     THEN InvalidMove("Pawn can only move one square forward")
     ELSE IF is_some(target)
     THEN (IF abs(to_file - from_file) # 1
           THEN InvalidMove("Pawn can only capture diagonally")
           ELSE OkRes)
     ELSE IF is_en_passant(b, m.to_file, m.to_rank)
     THEN OkRes
     ELSE IF abs(to_file - from_file) # 0
     THEN InvalidMove("Pawn can not move diagonally")
     ELSE OkRes

validate_knight(m, b) ==
  LET from_file == m.from_file
      from_rank == m.from_rank
      to_file == m.to_file
      to_rank == m.to_rank
  IN IF abs(to_file - from_file) = 2 /\ abs(to_rank - from_rank) = 1
     THEN OkRes
     ELSE IF abs(to_file - from_file) = 1 /\ abs(to_rank - from_rank) = 2
     THEN OkRes
     ELSE InvalidMove("Knight can only move two squares forward and one square sideways, or two squares sideways and one square forward")

\* `if to > from { 1 } else { -1 }`
direction(from, to) == IF to > from THEN 1 ELSE -1

\* walk_diagonal that lets a piece pass through pieces of its own side
RECURSIVE walk_diagonal_own_pass(_, _, _, _, _, _, _, _)
walk_diagonal_own_pass(b, file, rank, file_direction, rank_direction, to_file, to_rank, msg) ==
  IF file # to_file /\ rank # to_rank
  THEN IF ~in_bounds(file, rank) THEN PanicRes
       ELSE IF is_some(get_piece(b, file, rank))
               /\ unwrap(get_piece(b, file, rank)).color # b.turn
       THEN InvalidMove(msg)
       ELSE walk_diagonal_own_pass(b, file + file_direction, rank + rank_direction,
                                   file_direction, rank_direction, to_file, to_rank, msg)
  ELSE OkRes

\* the loop `while file != to_file && rank != to_rank` of the diagonal walks;
\* get_piece(file as usize, rank as usize) panics outside the grid
RECURSIVE walk_diagonal(_, _, _, _, _, _, _, _)
walk_diagonal(b, file, rank, file_direction, rank_direction, to_file, to_rank, msg) ==
  IF file # to_file /\ rank # to_rank
  THEN IF ~in_bounds(file, rank) THEN PanicRes
       ELSE IF is_some(get_piece(b, file, rank)) THEN InvalidMove(msg)
       ELSE walk_diagonal(b, file + file_direction, rank + rank_direction,
                          file_direction, rank_direction, to_file, to_rank, msg)
  ELSE OkRes

\* the loop `while rank != to_rank` along a file
RECURSIVE walk_file(_, _, _, _, _, _)
walk_file(b, from_file, rank, dir, to_rank, msg) ==
  IF rank # to_rank
  THEN IF ~in_bounds(from_file, rank) THEN PanicRes
       ELSE IF is_some(get_piece(b, from_file, rank)) THEN InvalidMove(msg)
       ELSE walk_file(b, from_file, rank + dir, dir, to_rank, msg)
  ELSE OkRes

\* the loop `while file != to_file` along a rank
RECURSIVE walk_rank(_, _, _, _, _, _)
walk_rank(b, file, from_rank, dir, to_file, msg) ==
  IF file # to_file
  THEN IF ~in_bounds(file, from_rank) THEN PanicRes
       ELSE IF is_some(get_piece(b, file, from_rank)) THEN InvalidMove(msg)
       ELSE walk_rank(b, file + dir, from_rank, dir, to_file, msg)
  ELSE OkRes

validate_bishop(m, b) ==
  LET from_file == m.from_file
      from_rank == m.from_rank
      to_file == m.to_file
      to_rank == m.to_rank
      file_direction == direction(from_file, to_file)
      rank_direction == direction(from_rank, to_rank)
  IN IF abs(to_file - from_file) # abs(to_rank - from_rank)
     THEN InvalidMove("Bishop can only move diagonally")
     ELSE walk_diagonal(b, from_file + file_direction, from_rank + rank_direction,
                        file_direction, rank_direction, to_file, to_rank,
                        "Bishop can not move through pieces")

validate_rook(m, b) ==
  LET from_file == m.from_file
      from_rank == m.from_rank
      to_file == m.to_file
      to_rank == m.to_rank
  IN IF from_file # to_file /\ from_rank # to_rank
     THEN InvalidMove("Rook can only move horizontally or vertically")
     ELSE IF from_file = to_file
     THEN walk_file(b, from_file, from_rank + direction(from_rank, to_rank),
                    direction(from_rank, to_rank), to_rank,
                    "Rook can not move through pieces")
     ELSE walk_rank(b, from_file + direction(from_file, to_file), from_rank,
                    direction(from_file, to_file), to_file,
                    "Rook can not move through pieces")

validate_queen(m, b) ==
  LET from_file == m.from_file
      from_rank == m.from_rank
      to_file == m.to_file
      to_rank == m.to_rank
      file_direction == direction(from_file, to_file)
      rank_direction == direction(from_rank, to_rank)
  IN IF from_file # to_file /\ from_rank # to_rank
        /\ abs(to_file - from_file) # abs(to_rank - from_rank)
     THEN InvalidMove("Queen can only move horizontally, vertically, or diagonally")
     ELSE IF from_file = to_file
     THEN walk_file(b, from_file, from_rank + rank_direction, rank_direction, to_rank,
                    "Queen can not move through pieces")
     ELSE IF from_rank = to_rank
     THEN walk_rank(b, from_file + file_direction, from_rank, file_direction, to_file,
                    "Queen can not move through pieces")
     ELSE walk_diagonal(b, from_file + file_direction, from_rank + rank_direction,
                        file_direction, rank_direction, to_file, to_rank,
                        "Queen can not move through pieces")

\* `if let Some(rook) = board.get_piece(file, rank) { if rook.class == Rook && .. }`
unmoved_rook(b, file, rank, color) ==
  LET rook == get_piece(b, file, rank)
  IN is_some(rook) /\ unwrap(rook).class = Rook /\ unwrap(rook).color = color
     /\ unwrap(rook).moves = 0

\* validate_king that lets a White king that has moved castle kingside
validate_king_moved(m, b) ==
  LET piece == unwrap(get_piece(b, m.from_file, m.from_rank))
      from_file == m.from_file
      from_rank == m.from_rank
      to_file == m.to_file
      to_rank == m.to_rank
  IN IF piece.color = White
        /\ from_file = 4 /\ from_rank = 0 /\ to_file = 6 /\ to_rank = 0
        /\ unmoved_rook(b, 7, 0, White)
        /\ is_none(get_piece(b, 5, 0)) /\ is_none(get_piece(b, 6, 0))
     THEN OkRes
     ELSE IF piece.color = White /\ piece.moves = 0
        /\ from_file = 4 /\ from_rank = 0 /\ to_file = 2 /\ to_rank = 0
        /\ unmoved_rook(b, 0, 0, White)
        /\ is_none(get_piece(b, 1, 0)) /\ is_none(get_piece(b, 2, 0))
        /\ is_none(get_piece(b, 3, 0))
     THEN OkRes
     ELSE IF piece.color = Black /\ piece.moves = 0
        /\ from_file = 4 /\ from_rank = 7 /\ to_file = 6 /\ to_rank = 7
        /\ unmoved_rook(b, 7, 7, Black)
        /\ is_none(get_piece(b, 5, 7)) /\ is_none(get_piece(b, 6, 7))
     THEN OkRes
     ELSE IF piece.color = Black /\ piece.moves = 0
        /\ from_file = 4 /\ from_rank = 7 /\ to_file = 2 /\ to_rank = 7
        /\ unmoved_rook(b, 0, 7, Black)
        /\ is_none(get_piece(b, 1, 7)) /\ is_none(get_piece(b, 2, 7))
        /\ is_none(get_piece(b, 3, 7))
     THEN OkRes
     ELSE IF abs(to_file - from_file) > 1 \/ abs(to_rank - from_rank) > 1
     THEN InvalidMove("King can only move one square in any direction")
     ELSE OkRes

\* validate_king whose castling patterns leave the destination square to the
\* own-piece check of validate
validate_king_destination_unchecked(m, b) ==
  LET piece == unwrap(get_piece(b, m.from_file, m.from_rank))
      from_file == m.from_file
      from_rank == m.from_rank
      to_file == m.to_file
      to_rank == m.to_rank
  IN IF piece.color = White /\ piece.moves = 0
        /\ from_file = 4 /\ from_rank = 0 /\ to_file = 6 /\ to_rank = 0
        /\ unmoved_rook(b, 7, 0, White)
        /\ is_none(get_piece(b, 5, 0))
     THEN OkRes
     ELSE IF piece.color = White /\ piece.moves = 0
        /\ from_file = 4 /\ from_rank = 0 /\ to_file = 2 /\ to_rank = 0
        /\ unmoved_rook(b, 0, 0, White)
        /\ is_none(get_piece(b, 1, 0))
        /\ is_none(get_piece(b, 3, 0))
     THEN OkRes
     ELSE IF piece.color = Black /\ piece.moves = 0
        /\ from_file = 4 /\ from_rank = 7 /\ to_file = 6 /\ to_rank = 7
        /\ unmoved_rook(b, 7, 7, Black)
        /\ is_none(get_piece(b, 5, 7))
     THEN OkRes
     ELSE IF piece.color = Black /\ piece.moves = 0
        /\ from_file = 4 /\ from_rank = 7 /\ to_file = 2 /\ to_rank = 7
        /\ unmoved_rook(b, 0, 7, Black)
        /\ is_none(get_piece(b, 1, 7))
        /\ is_none(get_piece(b, 3, 7))
     THEN OkRes
     ELSE IF abs(to_file - from_file) > 1 \/ abs(to_rank - from_rank) > 1
     THEN InvalidMove("King can only move one square in any direction")
     ELSE OkRes

validate_king(m, b) ==
  LET piece == unwrap(get_piece(b, m.from_file, m.from_rank))
      from_file == m.from_file
      from_rank == m.from_rank
      to_file == m.to_file
      to_rank == m.to_rank
  IN IF piece.color = White /\ piece.moves = 0
        /\ from_file = 4 /\ from_rank = 0 /\ to_file = 6 /\ to_rank = 0
        /\ unmoved_rook(b, 7, 0, White)
        /\ is_none(get_piece(b, 5, 0)) /\ is_none(get_piece(b, 6, 0))
     THEN OkRes
     ELSE IF piece.color = White /\ piece.moves = 0
        /\ from_file = 4 /\ from_rank = 0 /\ to_file = 2 /\ to_rank = 0
        /\ unmoved_rook(b, 0, 0, White)
        /\ is_none(get_piece(b, 1, 0)) /\ is_none(get_piece(b, 2, 0))
        /\ is_none(get_piece(b, 3, 0))
     THEN OkRes
     ELSE IF piece.color = Black /\ piece.moves = 0
        /\ from_file = 4 /\ from_rank = 7 /\ to_file = 6 /\ to_rank = 7
        /\ unmoved_rook(b, 7, 7, Black)
        /\ is_none(get_piece(b, 5, 7)) /\ is_none(get_piece(b, 6, 7))
     THEN OkRes
     ELSE IF piece.color = Black /\ piece.moves = 0
        /\ from_file = 4 /\ from_rank = 7 /\ to_file = 2 /\ to_rank = 7
        /\ unmoved_rook(b, 0, 7, Black)
        /\ is_none(get_piece(b, 1, 7)) /\ is_none(get_piece(b, 2, 7))
        /\ is_none(get_piece(b, 3, 7))
     THEN OkRes
     ELSE IF abs(to_file - from_file) > 1 \/ abs(to_rank - from_rank) > 1
     THEN InvalidMove("King can only move one square in any direction")
     ELSE OkRes

\* the `match piece.class { .. }` of validate
validate_class(m, b, class) ==
  CASE class = Pawn -> validate_pawn(m, b)
    [] class = Knight -> validate_knight(m, b)
    [] class = Bishop -> validate_bishop(m, b)
    [] class = Rook -> validate_rook(m, b)
    [] class = Queen -> validate_queen(m, b)
    [] class = King -> validate_king(m, b)

\* validate that runs the class rule before the side-to-move check
validate_class_first(m, b) ==
  LET piece == get_piece(b, m.from_file, m.from_rank)
      target == get_piece(b, m.to_file, m.to_rank)
  IN IF is_none(piece)
     THEN InvalidMove("No piece on square")
     ELSE LET by_class == validate_class(m, b, unwrap(piece).class)
          IN IF by_class.kind # "Ok"
             THEN by_class
             ELSE IF unwrap(piece).color # b.turn
             THEN InvalidMove("Not your piece")
             ELSE IF is_some(target) /\ unwrap(target).color = b.turn
             THEN InvalidMove("Can't capture your own piece")
             ELSE OkRes

\* validate without the side-to-move check
validate_any_side(m, b) ==
  LET piece == get_piece(b, m.from_file, m.from_rank)
      target == get_piece(b, m.to_file, m.to_rank)
  IN IF is_none(piece)
     THEN InvalidMove("No piece on square")
     ELSE LET by_class == validate_class(m, b, unwrap(piece).class)
          IN IF by_class.kind # "Ok"
             THEN by_class
             ELSE IF is_some(target) /\ unwrap(target).color = b.turn
             THEN InvalidMove("Can't capture your own piece")
             ELSE OkRes

validate(m, b) ==
  LET piece == get_piece(b, m.from_file, m.from_rank)
      target == get_piece(b, m.to_file, m.to_rank)
  IN IF is_none(piece)
     THEN InvalidMove("No piece on square")
     ELSE IF unwrap(piece).color # b.turn
     THEN InvalidMove("Not your piece")
     ELSE LET by_class == validate_class(m, b, unwrap(piece).class)
          IN IF by_class.kind # "Ok"
             THEN by_class
             ELSE IF is_some(target) /\ unwrap(target).color = b.turn
             THEN InvalidMove("Can't capture your own piece")
             ELSE OkRes

(***************************************************************************)
(* chess.rs: Board::move_piece.  The steps after validation each take the  *)
(* board so far and return [panic, b]: panic is TRUE when an unwrap() of   *)
(* None or an index outside the grid aborts the process at that step.      *)
(***************************************************************************)
other(color) == IF color = White THEN Black ELSE White

\* `if self.is_en_passant(m.to_file, m.to_rank) { .. }`
capture_en_passant(b, m, piece) ==
  IF is_en_passant(b, m.to_file, m.to_rank)
  THEN LET rank == IF piece.color = White THEN m.to_rank - 1 ELSE m.to_rank + 1
           b1 == [b EXCEPT !.halfmove_clock = 0]
       IN IF ~in_bounds(m.to_file, rank) \/ is_none(get_piece(b1, m.to_file, rank))
          THEN [panic |-> TRUE, b |-> b1]
          ELSE [panic |-> FALSE,
                b |-> clear_piece(
                        [b1 EXCEPT !.captured =
                           Append(@, unwrap(get_piece(b1, m.to_file, rank)))],
                        m.to_file, rank)]
  ELSE [panic |-> FALSE, b |-> b]

\* capture_target that forgets to reset the clock
capture_target_keeps_clock(b, m) ==
  LET target == get_piece(b, m.to_file, m.to_rank)
  IN IF is_some(target)
     THEN [b EXCEPT !.captured = Append(@, unwrap(target))]
     ELSE b

\* `if let Some(capture) = target { .. }`
capture_target(b, m) ==
  LET target == get_piece(b, m.to_file, m.to_rank)
  IN IF is_some(target)
     THEN [b EXCEPT !.halfmove_clock = 0, !.captured = Append(@, unwrap(target))]
     ELSE b

\* set_en_passant that takes the skipped square on White's side for both colours
set_en_passant_below(b, m, piece) ==
  IF piece.class = Pawn
  THEN IF distance(m) = 2
       THEN [b EXCEPT !.halfmove_clock = 0,
                      !.en_passant = Some(<< m.to_file, m.to_rank - 1 >>)]
       ELSE [b EXCEPT !.halfmove_clock = 0, !.en_passant = None]
  ELSE b

\* `if piece.class == Class::Pawn { .. }`
set_en_passant(b, m, piece) ==
  IF piece.class = Pawn
  THEN IF distance(m) = 2
       THEN LET rank == IF piece.color = White THEN m.to_rank - 1 ELSE m.to_rank + 1
            IN [b EXCEPT !.halfmove_clock = 0,
                         !.en_passant = Some(<< m.to_file, rank >>)]
       ELSE [b EXCEPT !.halfmove_clock = 0, !.en_passant = None]
  ELSE b

\* relocate_rook that leaves a copy of the rook on its origin square
relocate_rook_copy(b, from_file, to_file, rank) ==
  IF is_none(get_piece(b, from_file, rank))
  THEN [panic |-> TRUE, b |-> b]
  ELSE [panic |-> FALSE,
        b |-> set_piece(b, unwrap(get_piece(b, from_file, rank)), to_file, rank)]

\* `let rook = self.get_piece(from, rank).unwrap(); set_piece; clear_piece`
relocate_rook(b, from_file, to_file, rank) ==
  IF is_none(get_piece(b, from_file, rank))
  THEN [panic |-> TRUE, b |-> b]
  ELSE [panic |-> FALSE,
        b |-> clear_piece(set_piece(b, unwrap(get_piece(b, from_file, rank)),
                                    to_file, rank),
                          from_file, rank)]

\* `if piece.class == Class::King { .. }`
castle(b, m, piece) ==
  IF piece.class = King
  THEN IF m.to_file = 6 THEN relocate_rook(b, 7, 5, m.to_rank)
       ELSE IF m.to_file = 2 THEN relocate_rook(b, 0, 3, m.to_rank)
       ELSE [panic |-> FALSE, b |-> b]
  ELSE [panic |-> FALSE, b |-> b]

\* place_and_switch that counts the fullmove when White's move completes
place_and_switch_counts_white(b, m, piece, data) ==
  LET moved == [piece EXCEPT !.moves = @ + 1]
      b1 == clear_piece(set_piece(b, moved, m.to_file, m.to_rank),
                        m.from_file, m.from_rank)
      b2 == [b1 EXCEPT !.moves = Append(@, data)]
  IN IF b2.turn = White
     THEN [b2 EXCEPT !.turn = Black, !.fullmove_number = @ + 1]
     ELSE [b2 EXCEPT !.turn = White]

\* place_and_switch that logs the notation of the decoded move instead of data
place_and_switch_logs_move(b, m, piece, data) ==
  LET moved == [piece EXCEPT !.moves = @ + 1]
      b1 == clear_piece(set_piece(b, moved, m.to_file, m.to_rank),
                        m.from_file, m.from_rank)
      b2 == [b1 EXCEPT !.moves = Append(@, String_from(m))]
  IN IF b2.turn = White
     THEN [b2 EXCEPT !.turn = Black]
     ELSE [b2 EXCEPT !.turn = White, !.fullmove_number = @ + 1]

\* `piece.moves += 1` to the end of move_piece
place_and_switch(b, m, piece, data) ==
  LET moved == [piece EXCEPT !.moves = @ + 1]
      b1 == clear_piece(set_piece(b, moved, m.to_file, m.to_rank),
                        m.from_file, m.from_rank)
      b2 == [b1 EXCEPT !.moves = Append(@, data)]
  IN IF b2.turn = White
     THEN [b2 EXCEPT !.turn = Black]
     ELSE [b2 EXCEPT !.turn = White, !.fullmove_number = @ + 1]

\* move_piece from `self.halfmove_clock += 1` on, for a validated move
apply_move(self, m, data) ==
  LET b0 == [self EXCEPT !.halfmove_clock = @ + 1]
      piece == unwrap(get_piece(b0, m.from_file, m.from_rank))
      s1 == capture_en_passant(b0, m, piece)
  IN IF s1.panic THEN [board |-> s1.b, res |-> PanicRes]
     ELSE LET b2 == capture_target(s1.b, m)
              b3 == set_en_passant(b2, m, piece)
              s4 == castle(b3, m, piece)
          IN IF s4.panic THEN [board |-> s4.b, res |-> PanicRes]
             ELSE [board |-> place_and_switch(s4.b, m, piece, data), res |-> OkRes]

\* move_decoded that bumps the halfmove clock before it validates
move_decoded_clock_first(self, data, d) ==
  IF d.res.kind # "Ok" THEN [board |-> self, res |-> d.res]
  ELSE LET v == validate(d.m, self)
       IN IF v.kind # "Ok"
          THEN [board |-> [self EXCEPT !.halfmove_clock = @ + 1], res |-> v]
          ELSE apply_move(self, d.m, data)

\* the outcome of move_piece once `data.try_into()` gave d
move_decoded(self, data, d) ==
  IF d.res.kind # "Ok" THEN [board |-> self, res |-> d.res]
  ELSE LET v == validate(d.m, self)
       IN IF v.kind # "Ok" THEN [board |-> self, res |-> v]
          ELSE apply_move(self, d.m, data)

\* Board::move_piece: the set of its outcomes [board, res] on the input data
move_piece(self, data) ==
  { move_decoded(self, trim(data), d) : d \in try_from(trim(data)) }

(***************************************************************************)
(* main.rs: the control loop feeds one token after the other to            *)
(* move_piece.  result is what the last call returned; accepted is the log *)
(* of the calls that returned Ok, in order: the token passed (data), the   *)
(* move it decodes to (m) and the piece on its from-square before the call *)
(* (piece).  saved is the content of the save file (None until it is       *)
(* written).  input and decoded are the argument and the Move of the last  *)
(* direct call of the notation codec or of from_fen by a client of the     *)
(* library.                                                                *)
(***************************************************************************)
\* the notation of the move from (ff, fr) to (tf, tr)
N(ff, fr, tf, tr) == String_from(Move_new(ff, fr, tf, tr))

\* the tokens the player types under Spec
Inputs ==
  { N(4,1,4,3),   \* e2e4
    N(4,3,4,4),   \* e4e5
    N(4,3,3,4),   \* e4d5
    N(4,4,3,5),   \* e5d6
    N(3,1,4,2),   \* d2e3
    N(0,1,0,3),   \* a2a4
    N(0,0,0,2),   \* a1a3
    N(5,0,1,4),   \* f1b5
    N(1,4,4,7),   \* b5e8
    N(1,0,2,2),   \* b1c3
    N(2,2,1,4),   \* c3b5
    N(1,4,3,5),   \* b5d6
    N(4,6,4,4),   \* e7e5
    N(3,6,3,4),   \* d7d5
    N(1,7,2,5),   \* b8c6
    N(6,7,5,5),   \* g8f6
    N(6,0,5,2),   \* g1f3
    N(6,0,4,1),   \* g1e2
    N(1,0,0,2),   \* b1a3
    N(4,1,4,8) }  \* e2e9, off the board

Init ==
  /\ board = default_board
  /\ result = OkRes
  /\ accepted = << >>
  /\ saved = None
  /\ input = << >>
  /\ decoded = None

\* one call board.move_piece(data) of the loop; a panic ends the process
MovePiece(data) ==
  /\ result.kind # "Panic"
  /\ \E d \in try_from(trim(data)) :
       LET out == move_decoded(board, trim(data), d)
       IN /\ board' = out.board
          /\ result' = out.res
          /\ accepted' =
               IF out.res.kind = "Ok"
               THEN Append(accepted,
                           [data |-> trim(data), m |-> d.m,
                            piece |-> unwrap(get_piece(board, d.m.from_file,
                                                       d.m.from_rank))])
               ELSE accepted
  /\ UNCHANGED << saved, input, decoded >>

Next ==
  /\ Len(board.moves) < MaxPly
  /\ \E data \in Inputs : MovePiece(data)

Spec == Init /\ [][Next]_vars

\* the tokens the player types under SpecCastle
InputsCastle ==
  { N(4,1,4,3),   \* e2e4
    N(6,0,5,2),   \* g1f3
    N(5,0,1,4),   \* f1b5
    N(4,0,6,0),   \* e1g1
    N(4,0,4,1),   \* e1e2
    N(4,1,4,0),   \* e2e1
    N(7,0,6,0),   \* h1g1
    N(6,0,7,0),   \* g1h1
    N(3,1,3,3),   \* d2d4
    N(2,0,5,3),   \* c1f4
    N(1,0,2,2),   \* b1c3
    N(3,0,3,1),   \* d1d2
    N(4,0,2,0),   \* e1c1
    N(4,6,4,4),   \* e7e5
    N(6,7,5,5),   \* g8f6
    N(5,7,2,4),   \* f8c5
    N(4,7,6,7) }  \* e8g8

NextCastle ==
  /\ Len(board.moves) < MaxPlyCastle
  /\ \E data \in InputsCastle : MovePiece(data)

SpecCastle == Init /\ [][NextCastle]_vars

\* accepted moves per game explored by SpecOpening
MaxPlyOpening == 7

\* the tokens the player types under SpecOpening
InputsOpening ==
  { N(4,1,4,3),   \* e2e4
    N(4,6,4,4),   \* e7e5
    N(6,0,5,2),   \* g1f3
    N(1,7,2,5),   \* b8c6
    N(5,0,1,4),   \* f1b5
    N(4,0,6,0),   \* e1g1
    N(6,7,5,5),   \* g8f6
    N(3,6,3,4),   \* d7d5
    N(4,3,4,4),   \* e4e5
    N(4,3,5,4),   \* e4f5
    N(4,3,3,4) }  \* e4d5

NextOpening ==
  /\ Len(board.moves) < MaxPlyOpening
  /\ \E data \in InputsOpening : MovePiece(data)

SpecOpening == Init /\ [][NextOpening]_vars

\* accepted moves per game explored by SpecKing
MaxPlyKing == 9

\* the tokens the player types under SpecKing
InputsKing ==
  { N(4,1,4,3),   \* e2e4
    N(6,0,5,2),   \* g1f3
    N(5,0,1,4),   \* f1b5
    N(4,0,5,0),   \* e1f1
    N(5,0,6,0),   \* f1g1
    N(4,0,4,1),   \* e1e2
    N(4,6,4,4),   \* e7e5
    N(6,7,5,5),   \* g8f6
    N(5,7,2,4),   \* f8c5
    N(4,7,5,7),   \* e8f8
    N(5,7,6,7) }  \* f8g8

NextKing ==
  /\ Len(board.moves) < MaxPlyKing
  /\ \E data \in InputsKing : MovePiece(data)

SpecKing == Init /\ [][NextKing]_vars

(***************************************************************************)
(* chess.rs: Board::reset, Board::save and Board::load.  The file system   *)
(* is the one file saved; creating, writing and reading it succeed, and    *)
(* opening it fails while it has not been written.                         *)
(***************************************************************************)
\* accepted moves per game explored by SpecSave
MaxPlySave == 4

\* Board::reset: `*self = Board::new()?`
reset(self) == Board_new

\* what the loop of save writes: every move followed by a space
RECURSIVE save_string(_)
save_string(moves) ==
  IF moves = << >> THEN << >>
  ELSE Head(moves) \o << 32 >> \o save_string(Tail(moves))

\* one call of move_piece with the log of the accepted calls kept beside it
logged_move(b, log, data) ==
  { [board |-> move_decoded(b, trim(data), d).board,
     res |-> move_decoded(b, trim(data), d).res,
     log |-> IF move_decoded(b, trim(data), d).res.kind = "Ok"
             THEN Append(log, [data |-> trim(data), m |-> d.m,
                               piece |-> unwrap(get_piece(b, d.m.from_file,
                                                          d.m.from_rank))])
             ELSE log] : d \in try_from(trim(data)) }

\* the loop of load: `for m in moves { .. self.move_piece(m)?; }`
RECURSIVE replay(_, _, _)
replay(b, log, moves) ==
  IF moves = << >> THEN { [board |-> b, res |-> OkRes, log |-> log] }
  ELSE IF Len(trim(Head(moves))) > 0
  THEN UNION { IF out.res.kind = "Ok"
               THEN replay(out.board, out.log, Tail(moves))
               ELSE { out } : out \in logged_move(b, log, Head(moves)) }
  ELSE replay(b, log, Tail(moves))

\* Board::load once the file has been read into contents
load(self, contents) ==
  replay(reset(self), << >>, split(trim(contents), 32, << >>))

\* the tokens the player types under SpecSave
InputsSave ==
  { N(4,1,4,3),                     \* e2e4
    << 69, 55, 69, 53 >>,           \* E7E5
    << 32 >> \o N(6,0,5,2) \o << 10 >>,  \* " g1f3\n"
    N(3,6,3,4),                     \* d7d5
    N(4,3,3,4),                     \* e4d5
    N(3,7,3,4),                     \* d8d5
    N(4,1,4,4) }                    \* e2e5

\* board.save(filename)
Save ==
  /\ result.kind # "Panic"
  /\ saved' = Some(save_string(board.moves))
  /\ result' = OkRes
  /\ UNCHANGED << board, accepted, input, decoded >>

\* board.load(filename)
Load ==
  /\ result.kind # "Panic"
  /\ IF is_none(saved)
     THEN /\ result' = [kind |-> "SaveFailed", msg |-> "", arg |-> 0]
          /\ UNCHANGED << board, accepted >>
     ELSE \E out \in load(board, unwrap(saved)) :
            /\ board' = out.board
            /\ result' = out.res
            /\ accepted' = out.log
  /\ UNCHANGED << saved, input, decoded >>

NextSave ==
  \/ /\ Len(board.moves) < MaxPlySave
     /\ \E data \in InputsSave : MovePiece(data)
  \/ Save
  \/ Load

SpecSave == Init /\ [][NextSave]_vars

(***************************************************************************)
(* A client of the library calls the notation codec on its own: TryFrom    *)
(* decodes the string in input into decoded, IntoString encodes the Move   *)
(* in decoded into input, and MovePiece hands input to the board.          *)
(***************************************************************************)
\* the longest string handed to the codec
MaxLen == 5

\* a, H, i, 2, 3, 0
Chars == { 97, 72, 105, 50, 51, 48 }

\* the strings over Chars of at most MaxLen characters
Strings == UNION { [1..k -> Chars] : k \in 0..MaxLen }

\* a-h and A-H
FileChars == (97..104) \cup (65..72)

\* 1-8
RankChars == 49..56

\* the 4-character notations: files a-h in either case, ranks 1-8
Notations ==
  { << ff, fr, tf, tr >> :
      ff \in FileChars, fr \in RankChars, tf \in FileChars, tr \in RankChars }

\* the moves with all four coordinates on the board
Moves ==
  { Move_new(ff, fr, tf, tr) : ff \in 0..7, fr \in 0..7, tf \in 0..7, tr \in 0..7 }

\* the client holds a string to decode or a Move to encode
InitCodec ==
  /\ board = default_board
  /\ result = OkRes
  /\ accepted = << >>
  /\ saved = None
  /\ \/ input \in Strings \cup Notations /\ decoded = None
     \/ input = << >> /\ decoded \in { Some(m) : m \in Moves }

\* Move::try_from(input)
TryFrom ==
  /\ result.kind # "Panic"
  /\ \E d \in try_from(input) :
       /\ result' = d.res
       /\ decoded' = IF d.res.kind = "Ok" THEN Some(d.m) ELSE None
  /\ UNCHANGED << board, accepted, saved, input >>

\* String::from(m) for the Move m in decoded
IntoString ==
  /\ result.kind # "Panic"
  /\ is_some(decoded)
  /\ input' = String_from(unwrap(decoded))
  /\ result' = OkRes
  /\ UNCHANGED << board, accepted, saved, decoded >>

NextCodec ==
  \/ TryFrom
  \/ IntoString
  \/ MovePiece(input)

SpecCodec == InitCodec /\ [][NextCodec]_vars

(***************************************************************************)
(* A client of the library builds a Board with Board::new() and calls      *)
(* from_fen on it; input is the string it passed.                          *)
(***************************************************************************)
\* "rnbqkbnr/pppppppp/8/8/8/8/PPPPPPPP/RNBQKBNR", "8/8/8/8/8/8/8/8",
\* "4k3/8/8/8/8/8/8/R3K2R", "rnbqkbnr/pppp?ppp/8/8/8/8/PPPPPPPP/RNBQKBNR",
\* "ppppppppp/8/8/8/8/8/8/8", "9p?/8/8/8/8/8/8/8"
Placements ==
  { << 114, 110, 98, 113, 107, 98, 110, 114, 47, 112, 112, 112, 112, 112, 112, 112,
       112, 47, 56, 47, 56, 47, 56, 47, 56, 47, 80, 80, 80, 80, 80, 80,
       80, 80, 47, 82, 78, 66, 81, 75, 66, 78, 82 >>,
    << 56, 47, 56, 47, 56, 47, 56, 47, 56, 47, 56, 47, 56, 47, 56 >>,
    << 52, 107, 51, 47, 56, 47, 56, 47, 56, 47, 56, 47, 56, 47, 56, 47,
       82, 51, 75, 50, 82 >>,
    << 114, 110, 98, 113, 107, 98, 110, 114, 47, 112, 112, 112, 112, 63, 112, 112,
       112, 47, 56, 47, 56, 47, 56, 47, 56, 47, 80, 80, 80, 80, 80, 80,
       80, 80, 47, 82, 78, 66, 81, 75, 66, 78, 82 >>,
    << 112, 112, 112, 112, 112, 112, 112, 112, 112, 47, 56, 47, 56, 47, 56, 47,
       56, 47, 56, 47, 56, 47, 56 >>,
    << 57, 112, 63, 47, 56, 47, 56, 47, 56, 47, 56, 47, 56, 47, 56, 47,
       56 >> }

\* "w", "b", "x"
Starts ==
  { << 119 >>,
    << 98 >>,
    << 120 >> }

\* "KQkq", "-"
Castlings ==
  { << 75, 81, 107, 113 >>,
    << 45 >> }

\* "-", "e3", "d6", "e4"
EnPassants ==
  { << 45 >>,
    << 101, 51 >>,
    << 100, 54 >>,
    << 101, 52 >> }

\* "0", "12", "x", "-1"
Halfmoves ==
  { << 48 >>,
    << 49, 50 >>,
    << 120 >>,
    << 45, 49 >> }

\* "1", "40", "", "1x"
Fullmoves ==
  { << 49 >>,
    << 52, 48 >>,
    << >>,
    << 49, 120 >> }

\* the fields with a space between them
RECURSIVE join(_)
join(fields) ==
  IF fields = << >> THEN << >>
  ELSE IF Len(fields) = 1 THEN Head(fields)
  ELSE Head(fields) \o << 32 >> \o join(Tail(fields))

\* the strings passed to from_fen: the first k of six fields, and the empty
\* string
Fens ==
  { join(SubSeq(<< p, t, c, e, h, f >>, 1, k)) :
      p \in Placements, t \in Starts, c \in Castlings, e \in EnPassants,
      h \in Halfmoves, f \in Fullmoves, k \in 1..6 } \cup { << >> }

\* Board::new()
InitFen ==
  /\ board = Board_new
  /\ result = OkRes
  /\ accepted = << >>
  /\ saved = None
  /\ input = << >>
  /\ decoded = None

\* board.from_fen(data)
FromFen(data) ==
  /\ result.kind # "Panic"
  /\ board' = from_fen(board, data).b
  /\ result' = from_fen(board, data).res
  /\ input' = data
  /\ accepted' = << >>
  /\ UNCHANGED << saved, decoded >>

\* a first call with any of the strings, and calls with DEFAULT_BOARD on
\* whatever board an earlier call left
NextFen ==
  \/ /\ input = << >>
     /\ \E data \in Fens : FromFen(data)
  \/ FromFen(DEFAULT_BOARD)

SpecFen == InitFen /\ [][NextFen]_vars

(***************************************************************************)
(* Properties                                                              *)
(***************************************************************************)
\* the entry the last accepted call added to the log
last_accepted(log) == log[Len(log)]

\* this step is a call of move_piece that returned Ok
Accepted == result'.kind = "Ok" /\ Len(accepted') = Len(accepted) + 1

\* C1: a call of move_piece that returns an InvalidMove error leaves the whole
\* board as it was before the call: piece grid with the pieces' move counts,
\* turn, en-passant target, halfmove clock, fullmove number, history and
\* captured list.
C1_RejectedMoveLeavesBoard ==
  [][result'.kind = "InvalidMove" => board' = board]_vars

\* C1 witness: the last check of validate rejected a call on a board that
\* accepted moves had already changed.
C1_Witness ==
  /\ result = InvalidMove("Can't capture your own piece")
  /\ Len(board.moves) >= 2
  /\ board.halfmove_clock >= 1
  /\ is_some(board.en_passant)

\* C2: every accepted call moves a piece of the side whose turn it was before
\* the call and hands the turn to the other side, so the movers of the
\* accepted calls are White, Black, White, ... in order.
C2_TurnAlternates ==
  /\ [][Accepted => /\ last_accepted(accepted').piece.color = board.turn
                    /\ board'.turn = other(board.turn)]_vars
  /\ [](\A i \in 1..Len(accepted) :
          accepted[i].piece.color = IF i % 2 = 1 THEN White ELSE Black)

\* C2 witness: four moves were accepted and it is White's turn again.
C2_Witness ==
  /\ Len(accepted) = 4
  /\ board.turn = White
  /\ accepted[4].piece.color = Black

\* a straight two-square advance of a pawn
double_advance(a) ==
  /\ a.piece.class = Pawn
  /\ a.m.from_file = a.m.to_file
  /\ abs(a.m.to_rank - a.m.from_rank) = 2

\* the square a straight two-square advance skips over
skipped(a) == << a.m.to_file, (a.m.from_rank + a.m.to_rank) \div 2 >>

\* C3: once a move has been accepted, the en-passant target is set if and only
\* if the most recent accepted move was a two-square pawn advance, and then it
\* is the square that pawn skipped over; after any other accepted move it is
\* none.
C3_EnPassantOnlyAfterDoubleAdvance ==
  Len(accepted) > 0 =>
    board.en_passant = IF double_advance(last_accepted(accepted))
                       THEN Some(skipped(last_accepted(accepted)))
                       ELSE None

\* C4: after an accepted move the halfmove clock is 0 if a pawn moved or a
\* piece was captured (directly or en passant), and otherwise one more than
\* before the move.
C4_HalfmoveClock ==
  [][Accepted =>
       board'.halfmove_clock =
         IF \/ last_accepted(accepted').piece.class = Pawn
            \/ Len(board'.captured) > Len(board.captured)
         THEN 0
         ELSE board.halfmove_clock + 1]_vars

\* C4 witness: two quiet moves in a row took the clock to 2 after a pawn move
\* had reset it.
C4_Witness ==
  /\ result.kind = "Ok"
  /\ Len(accepted) >= 3
  /\ accepted[Len(accepted) - 2].piece.class = Pawn
  /\ last_accepted(accepted).piece.class # Pawn
  /\ board.halfmove_clock = 2

\* the number of accepted calls that moved a piece of the given colour
count_movers(log, color) ==
  Cardinality({ i \in 1..Len(log) : log[i].piece.color = color })

\* C5: an accepted move by Black adds exactly 1 to the fullmove number, an
\* accepted move by White leaves it alone, and it is always 1 plus the number
\* of accepted Black moves.
C5_FullmoveNumber ==
  /\ [][Accepted =>
          board'.fullmove_number =
            IF last_accepted(accepted').piece.color = Black
            THEN board.fullmove_number + 1
            ELSE board.fullmove_number]_vars
  /\ [](board.fullmove_number = 1 + count_movers(accepted, Black))

\* C5 witness: Black has moved twice and the fullmove number is 3.
C5_Witness ==
  /\ count_movers(accepted, Black) = 2
  /\ board.fullmove_number = 3

\* the squares of the grid
Squares == (0..7) \X (0..7)

\* every move whose four coordinates are on the grid
AllMoves ==
  { Move_new(from[1], from[2], to[1], to[2]) : from \in Squares, to \in Squares }

\* the number of kings of a colour on the grid
kings(b, color) ==
  Cardinality({ sq \in Squares :
                  /\ is_some(get_piece(b, sq[1], sq[2]))
                  /\ unwrap(get_piece(b, sq[1], sq[2])).class = King
                  /\ unwrap(get_piece(b, sq[1], sq[2])).color = color })

\* C6: in every state reached by accepted moves from the starting position the
\* grid holds exactly one White king and exactly one Black king.
C6_OneKingEach ==
  kings(board, White) = 1 /\ kings(board, Black) = 1

\* Each board is first reached by construction or by a call that returned Ok,
\* and result is "Ok" there; the rejected calls that follow leave the board as
\* it is and only change result.  The properties of validate on the current
\* board are evaluated on that first state of each board.
first_seen == result.kind = "Ok"

\* C7: validate rejects a move from an empty square with "No piece on square"
\* and a move of a piece of the side not to move with "Not your piece",
\* whatever the destination and whatever the class of the piece.
C7_EmptyOrForeignSquare ==
  first_seen =>
    \A from \in Squares :
      LET piece == get_piece(board, from[1], from[2])
      IN /\ is_none(piece) =>
              \A to \in Squares :
                validate(Move_new(from[1], from[2], to[1], to[2]), board)
                  = InvalidMove("No piece on square")
         /\ (is_some(piece) /\ unwrap(piece).color # board.turn) =>
              \A to \in Squares :
                validate(Move_new(from[1], from[2], to[1], to[2]), board)
                  = InvalidMove("Not your piece")

\* C7 witness: after some accepted moves a call was rejected because the piece
\* on the from-square belongs to the side not to move.
C7_Witness ==
  /\ result = InvalidMove("Not your piece")
  /\ Len(accepted) >= 2
  /\ \E sq \in Squares : sq[2] \in {1, 6} /\ is_none(get_piece(board, sq[1], sq[2]))

\* the squares strictly between the ends of a move along a rank, a file or a
\* diagonal
between(m) ==
  { sq \in Squares :
      /\ sq # << m.from_file, m.from_rank >>
      /\ sq # << m.to_file, m.to_rank >>
      /\ (sq[1] - m.from_file) * (m.to_rank - m.from_rank)
           = (sq[2] - m.from_rank) * (m.to_file - m.from_file)
      /\ (sq[1] - m.from_file) * (sq[1] - m.to_file) <= 0
      /\ (sq[2] - m.from_rank) * (sq[2] - m.to_rank) <= 0 }

straight(m) == m.from_file = m.to_file \/ m.from_rank = m.to_rank

diagonal(m) == abs(m.to_file - m.from_file) = abs(m.to_rank - m.from_rank)

\* the move has the geometry of the class of a sliding piece
slides(class, m) ==
  CASE class = Rook -> straight(m)
    [] class = Bishop -> diagonal(m)
    [] class = Queen -> straight(m) \/ diagonal(m)
    [] OTHER -> FALSE

blocked_message(class) ==
  CASE class = Rook -> "Rook can not move through pieces"
    [] class = Bishop -> "Bishop can not move through pieces"
    [] class = Queen -> "Queen can not move through pieces"

\* the moves of the sliding pieces of the side to move that have the geometry
\* of their class and leave their square
sliding_moves(b) ==
  UNION { LET piece == get_piece(b, from[1], from[2])
          IN IF is_some(piece) /\ unwrap(piece).color = b.turn
                /\ unwrap(piece).class \in {Rook, Bishop, Queen}
             THEN { Move_new(from[1], from[2], to[1], to[2]) :
                      to \in { t \in Squares \ {from} :
                                 slides(unwrap(piece).class,
                                        Move_new(from[1], from[2], t[1], t[2])) } }
             ELSE {} : from \in Squares }

\* C8: a Rook, Bishop or Queen of the side to move, on a move with the geometry
\* of its class to another square, is rejected with its class's "can not move
\* through pieces" message exactly when some square strictly between origin and
\* destination is occupied, by a piece of either colour.
C8_PathBlocked ==
  first_seen =>
    \A m \in sliding_moves(board) :
      LET class == unwrap(get_piece(board, m.from_file, m.from_rank)).class
      IN validate(m, board) = InvalidMove(blocked_message(class))
         <=> \E sq \in between(m) : is_some(get_piece(board, sq[1], sq[2]))

\* C8 witness: a bishop move was rejected as blocked while another sliding move
\* of at least two squares has a free path and an occupied destination.
C8_Witness ==
  /\ result = InvalidMove("Bishop can not move through pieces")
  /\ \E m \in sliding_moves(board) :
       /\ between(m) # {}
       /\ \A sq \in between(m) : is_none(get_piece(board, sq[1], sq[2]))
       /\ is_some(get_piece(board, m.to_file, m.to_rank))
  /\ \E m \in sliding_moves(board) :
       \E sq \in between(m) :
         /\ is_some(get_piece(board, sq[1], sq[2]))
         /\ unwrap(get_piece(board, sq[1], sq[2])).color # board.turn

\* the back rank of a colour
home_rank(color) == IF color = White THEN 0 ELSE 7

\* the file of the rook a king castles with when it goes to to_file
rook_file(to_file) == IF to_file = 6 THEN 7 ELSE 0

\* the king on m's from-square is unmoved on the e-file of its back rank, goes
\* to the g- or c-file of that rank, the h- resp. a-file square of the rank
\* holds an unmoved rook of its colour and the squares between them are empty
castling_pattern(b, m) ==
  LET king == unwrap(get_piece(b, m.from_file, m.from_rank))
      rank == home_rank(king.color)
      rook == get_piece(b, rook_file(m.to_file), rank)
  IN /\ king.moves = 0
     /\ m.from_file = 4 /\ m.from_rank = rank
     /\ m.to_file \in {2, 6} /\ m.to_rank = rank
     /\ is_some(rook)
     /\ unwrap(rook) = [class |-> Rook, color |-> king.color, moves |-> 0]
     /\ \A f \in 0..7 :
          (f - 4) * (f - rook_file(m.to_file)) < 0 => is_none(get_piece(b, f, rank))

\* the squares that hold a king
king_squares(b) ==
  { sq \in Squares : /\ is_some(get_piece(b, sq[1], sq[2]))
                     /\ unwrap(get_piece(b, sq[1], sq[2])).class = King }

\* C9: the King rule accepts a king move exactly when it is a castling pattern
\* or the king goes at most one file and at most one rank away; so a king that
\* has moved, or whose rook has moved, never makes a two-file move.
C9_KingRule ==
  first_seen =>
    \A from \in king_squares(board) : \A to \in Squares :
      LET m == Move_new(from[1], from[2], to[1], to[2])
      IN validate_king(m, board).kind = "Ok"
         <=> \/ castling_pattern(board, m)
             \/ (abs(m.to_file - m.from_file) <= 1 /\ abs(m.to_rank - m.from_rank) <= 1)

\* the accepted call was a king move of two files
castled(a) == a.piece.class = King /\ abs(a.m.to_file - a.m.from_file) = 2

\* C9 witness: a king castled, and the other king stands unmoved on its e-file
\* square with an unmoved rook on the h-file and a piece between them.
C9_Witness ==
  /\ result.kind = "Ok"
  /\ Len(accepted) > 0
  /\ castled(last_accepted(accepted))
  /\ \E from \in king_squares(board) :
       LET m == Move_new(from[1], from[2], 6, from[2])
       IN /\ from[1] = 4
          /\ unwrap(get_piece(board, from[1], from[2])).moves = 0
          /\ unmoved_rook(board, 7, from[2],
                          unwrap(get_piece(board, from[1], from[2])).color)
          /\ ~castling_pattern(board, m)

\* C10: an accepted castling move leaves the king on the g-file (kingside) or
\* c-file (queenside) square of its back rank and the rook it castled with on
\* the f-file resp. d-file square, empties the king's e-file square and the
\* rook's h-file resp. a-file square, and changes no other square of the grid.
C10_CastlingEffect ==
  [][(Accepted /\ castled(last_accepted(accepted'))) =>
       LET a == last_accepted(accepted')
           rank == home_rank(a.piece.color)
           king_to == a.m.to_file
           rook_from == rook_file(king_to)
           rook_to == IF king_to = 6 THEN 5 ELSE 3
           king == get_piece(board', king_to, rank)
           rook == get_piece(board', rook_to, rank)
       IN /\ king_to \in {2, 6} /\ a.m.to_rank = rank
          /\ is_some(king)
          /\ unwrap(king).class = King /\ unwrap(king).color = a.piece.color
          /\ is_some(rook)
          /\ unwrap(rook).class = Rook /\ unwrap(rook).color = a.piece.color
          /\ is_none(get_piece(board', 4, rank))
          /\ is_none(get_piece(board', rook_from, rank))
          /\ \A sq \in Squares :
               (sq[2] # rank \/ sq[1] \notin {4, king_to, rook_from, rook_to})
                 => get_piece(board', sq[1], sq[2]) = get_piece(board, sq[1], sq[2])
    ]_vars

\* C10 witness: White has castled queenside: king on c1, rook on d1, a1 and e1
\* empty.
C10_Witness ==
  /\ result.kind = "Ok"
  /\ Len(accepted) > 0
  /\ castled(last_accepted(accepted))
  /\ last_accepted(accepted).m.to_file = 2
  /\ is_some(get_piece(board, 2, 0)) /\ unwrap(get_piece(board, 2, 0)).class = King
  /\ is_some(get_piece(board, 3, 0)) /\ unwrap(get_piece(board, 3, 0)).class = Rook
  /\ is_none(get_piece(board, 0, 0)) /\ is_none(get_piece(board, 4, 0))

(***************************************************************************)
(* The opening e2e4 e7e5 g1f3 b8c6 f1b5 and the pawn on e4                 *)
(***************************************************************************)
\* the history after e2e4, e7e5, g1f3, b8c6, f1b5
Opening ==
  << N(4,1,4,3), N(4,6,4,4), N(6,0,5,2), N(1,7,2,5), N(5,0,1,4) >>

\* the king of colour c has castled kingside on board b: king on g, rook on f,
\* e and h empty
castled_kingside(b, c) ==
  /\ get_piece(b, 6, home_rank(c)) = Some([class |-> King, color |-> c, moves |-> 1])
  /\ get_piece(b, 5, home_rank(c)) = Some([class |-> Rook, color |-> c, moves |-> 0])
  /\ is_none(get_piece(b, 4, home_rank(c)))
  /\ is_none(get_piece(b, 7, home_rank(c)))

\* C11 as stated: after e2e4, e7e5, g1f3, b8c6, f1b5 the call e1g1 succeeds as
\* White kingside castling and leaves the White king on g1 and the White rook
\* on f1.
C11_CastleAfterOpening ==
  [][(board.moves = Opening /\ MovePiece(N(4,0,6,0)))
       => /\ result'.kind = "Ok"
          /\ castled_kingside(board', White)]_vars

\* C11 amended: after those five accepted calls it is Black's turn, so e1g1 is
\* rejected with "Not your piece" and changes nothing; once Black has answered
\* with g8f6, e1g1 is accepted as White kingside castling and leaves the White
\* king on g1 and the White rook on f1.
C11_CastleOnWhiteTurn ==
  /\ [][(board.moves = Opening /\ MovePiece(N(4,0,6,0)))
          => /\ result' = InvalidMove("Not your piece")
             /\ board' = board]_vars
  /\ [][(board.moves = Append(Opening, N(6,7,5,5)) /\ MovePiece(N(4,0,6,0)))
          => /\ result'.kind = "Ok"
             /\ board'.moves = Opening \o << N(6,7,5,5), N(4,0,6,0) >>
             /\ castled_kingside(board', White)]_vars

\* C11 witness: the seven calls were accepted in this order and White has
\* castled.
C11_Witness ==
  /\ board.moves = Opening \o << N(6,7,5,5), N(4,0,6,0) >>
  /\ result.kind = "Ok"
  /\ castled_kingside(board, White)

\* the history after e2e4, d7d5
CentrePawns == << N(4,1,4,3), N(3,6,3,4) >>

\* C12 as stated: after e2e4 and d7d5 the call e4e5 fails with InvalidMove and
\* leaves the board unchanged.
C12_AdvanceRejected ==
  [][(board.moves = CentrePawns /\ MovePiece(N(4,3,4,4)))
       => /\ result'.kind = "InvalidMove"
          /\ board' = board]_vars

\* C12 amended: after e2e4 and d7d5 the call e4e5, a straight advance onto an
\* empty square, is accepted and puts the pawn on e5; the call e4f5, onto an
\* empty square that is not the en-passant target with a file delta of 1,
\* fails with "Pawn can not move diagonally" and leaves the board unchanged.
C12_SidewaysRejected ==
  /\ [][(board.moves = CentrePawns /\ MovePiece(N(4,3,4,4)))
          => /\ result'.kind = "Ok"
             /\ board'.moves = Append(CentrePawns, N(4,3,4,4))
             /\ get_piece(board', 4, 4)
                  = Some([class |-> Pawn, color |-> White, moves |-> 2])
             /\ is_none(get_piece(board', 4, 3))]_vars
  /\ [][(board.moves = CentrePawns /\ MovePiece(N(4,3,5,4)))
          => /\ result' = InvalidMove("Pawn can not move diagonally")
             /\ board' = board]_vars

\* C12 witness: after e2e4 and d7d5 a call was rejected for moving the pawn
\* diagonally onto an empty square.
C12_Witness ==
  /\ board.moves = CentrePawns
  /\ result = InvalidMove("Pawn can not move diagonally")
  /\ is_none(get_piece(board, 5, 4))
  /\ ~is_en_passant(board, 5, 4)

(***************************************************************************)
(* The pawn rule                                                           *)
(***************************************************************************)
\* the squares holding a pawn of the side to move
pawn_squares(b) ==
  { sq \in Squares :
      /\ is_some(get_piece(b, sq[1], sq[2]))
      /\ unwrap(get_piece(b, sq[1], sq[2])).class = Pawn
      /\ unwrap(get_piece(b, sq[1], sq[2])).color = b.turn }

\* the conditions of the pawn rule, for a pawn on the from-square of m
pawn_rule(b, m) ==
  LET piece == unwrap(get_piece(b, m.from_file, m.from_rank))
      dest == get_piece(b, m.to_file, m.to_rank)
      steps == IF piece.color = White THEN m.to_rank - m.from_rank
                                      ELSE m.from_rank - m.to_rank
      sideways == abs(m.to_file - m.from_file)
  IN /\ steps > 0
     /\ steps = 1 \/ (steps = 2 /\ piece.moves = 0)
     /\ \/ /\ is_some(dest)
           /\ unwrap(dest).color # piece.color
           /\ sideways = 1
        \/ /\ is_none(dest)
           /\ \/ b.en_passant = Some(<< m.to_file, m.to_rank >>)
              \/ sideways = 0

\* C13: validate accepts a move of a pawn of the side to move if and only if
\* the pawn moves strictly toward the opposing back rank, by one rank, or by
\* one or two ranks when its move-count is 0, and either the destination holds
\* an enemy piece and the file delta is 1 in absolute value, or the
\* destination is empty and is the en-passant target or the file delta is 0.
C13_PawnRule ==
  first_seen =>
    \A from \in pawn_squares(board) : \A to \in Squares :
      LET m == Move_new(from[1], from[2], to[1], to[2])
      IN (validate(m, board) = OkRes) <=> pawn_rule(board, m)

\* C13 witness: validate accepts a move of a pawn of the side to move by one
\* rank onto an empty square of another file (the en-passant target).
C13_Witness ==
  /\ first_seen
  /\ \E from \in pawn_squares(board) : \E to \in Squares :
       LET m == Move_new(from[1], from[2], to[1], to[2])
       IN /\ validate(m, board) = OkRes
          /\ is_none(get_piece(board, to[1], to[2]))
          /\ m.from_file # m.to_file
          /\ abs(m.to_rank - m.from_rank) = 1

\* C14: an accepted straight two-square advance of a pawn with move-count 0
\* leaves the en-passant target on the square the pawn skipped and the pawn on
\* its destination with move-count 1; e2e4 from the starting position sets
\* the target to (4, 2).
C14_DoubleAdvanceSetsTarget ==
  /\ [][(Accepted /\ double_advance(last_accepted(accepted'))
                  /\ last_accepted(accepted').piece.moves = 0)
          => LET a == last_accepted(accepted')
                 r == IF a.piece.color = White THEN a.m.from_rank + 1
                                               ELSE a.m.from_rank - 1
             IN /\ a.m.to_rank = IF a.piece.color = White
                                 THEN a.m.from_rank + 2 ELSE a.m.from_rank - 2
                /\ board'.en_passant = Some(<< a.m.from_file, r >>)
                /\ get_piece(board', a.m.to_file, a.m.to_rank)
                     = Some([class |-> Pawn, color |-> a.piece.color,
                             moves |-> 1])]_vars
  /\ [][(board = default_board /\ MovePiece(N(4,1,4,3)))
          => /\ result'.kind = "Ok"
             /\ board'.en_passant = Some(<< 4, 2 >>)
             /\ get_piece(board', 4, 3)
                  = Some([class |-> Pawn, color |-> White, moves |-> 1])]_vars

\* C14 witness: the last accepted call was a two-square advance of a Black
\* pawn that had not moved, made while an earlier target was still set.
C14_Witness ==
  /\ Len(accepted) >= 2
  /\ result.kind = "Ok"
  /\ double_advance(last_accepted(accepted))
  /\ last_accepted(accepted).piece = [class |-> Pawn, color |-> Black, moves |-> 0]
  /\ board.en_passant = Some(skipped(last_accepted(accepted)))

(***************************************************************************)
(* The notation codec                                                      *)
(***************************************************************************)
\* the string with its letters in lower case
lowercase(s) == [i \in 1..Len(s) |-> to_lowercase(s[i])]

\* exactly 4 characters: file a-h in either case, rank 1-8, file, rank
valid4(s) ==
  /\ Len(s) = 4
  /\ s[1] \in FileChars /\ s[2] \in RankChars
  /\ s[3] \in FileChars /\ s[4] \in RankChars

\* C15: encoding a move with all four coordinates in 0..7 gives a 4-character
\* string that decodes to the same move, and decoding a valid 4-character
\* notation (files a-h in either case, ranks 1-8) gives a move whose encoding
\* is the input in lower case.
C15_CodecRoundTrip ==
  /\ [][IntoString
          => /\ Len(input') = 4
             /\ try_from(input') = { [res |-> OkRes, m |-> unwrap(decoded)] }]_vars
  /\ [][(TryFrom /\ valid4(input))
          => /\ result' = OkRes
             /\ is_some(decoded')
             /\ String_from(unwrap(decoded')) = lowercase(input)]_vars

\* C15 witness: a notation with a capital letter has been decoded to a move
\* whose files differ and whose ranks differ.
C15_Witness ==
  /\ valid4(input)
  /\ input # lowercase(input)
  /\ result = OkRes
  /\ is_some(decoded)
  /\ unwrap(decoded).from_file # unwrap(decoded).to_file
  /\ unwrap(decoded).from_rank # unwrap(decoded).to_rank
  /\ unwrap(decoded).from_file # unwrap(decoded).from_rank

\* C16: decoding returns an error, never a crash and never a Move, for every
\* input that is not exactly 4 valid characters (too short, too long, or with
\* a character outside a-h / 1-8 in its position), and move_piece on such an
\* input returns an error and leaves the board unchanged.
C16_MalformedRejected ==
  /\ [][(TryFrom /\ ~valid4(input))
          => /\ result'.kind = "InvalidMove"
             /\ is_none(decoded')]_vars
  /\ [][(MovePiece(input) /\ ~valid4(input))
          => /\ result'.kind = "InvalidMove"
             /\ board' = board]_vars

(***************************************************************************)
(* The history and the save file                                           *)
(***************************************************************************)
\* C17: the history is the log of the accepted calls of move_piece: one entry
\* per accepted call, in order, equal to the trimmed string passed to that
\* call; a call that is not accepted adds no entry; and the turn flips exactly
\* when an entry is added, so the length of the history is the number of turn
\* flips.
C17_HistoryIsLog ==
  /\ [](/\ Len(board.moves) = Len(accepted)
        /\ \A i \in 1..Len(accepted) : board.moves[i] = accepted[i].data
        /\ board.turn = IF Len(board.moves) % 2 = 0 THEN White ELSE Black)
  /\ [][\A data \in InputsSave :
          MovePiece(data) =>
            IF result'.kind = "Ok"
            THEN /\ board'.moves = Append(board.moves, trim(data))
                 /\ board'.turn = other(board.turn)
            ELSE /\ board'.moves = board.moves
                 /\ board'.turn = board.turn]_vars

\* C17 witness: three calls were accepted, among them tokens in capitals and
\* with surrounding whitespace, and the last call was rejected.
C17_Witness ==
  /\ Len(board.moves) = 3
  /\ board.moves[2] = << 69, 55, 69, 53 >>
  /\ board.moves[3] = N(6,0,5,2)
  /\ result.kind = "InvalidMove"

\* C18: saving the history of a board reached from the starting position by
\* at least one accepted move and then loading that file succeeds and gives
\* back the same board: grid, turn, en-passant target, clocks, history and
\* captured list.
C18_SaveLoadRoundTrip ==
  [][(/\ Len(board.moves) > 0
      /\ saved = Some(save_string(board.moves))
      /\ Load)
       => /\ result'.kind = "Ok"
          /\ board' = board]_vars

(***************************************************************************)
(* Position loading                                                        *)
(***************************************************************************)
\* the classes of a back rank, files 0..7: R N B Q K B N R
back_rank == << Rook, Knight, Bishop, Queen, King, Bishop, Knight, Rook >>

\* the standard layout: White back rank on rank 0 and pawns on rank 1, Black
\* pawns on rank 6 and back rank on rank 7, every move-count 0
standard_grid ==
  [f \in 0..7 |-> [r \in 0..7 |->
     CASE r = 0 -> Some([class |-> back_rank[f + 1], color |-> White, moves |-> 0])
       [] r = 1 -> Some([class |-> Pawn, color |-> White, moves |-> 0])
       [] r = 6 -> Some([class |-> Pawn, color |-> Black, moves |-> 0])
       [] r = 7 -> Some([class |-> back_rank[f + 1], color |-> Black, moves |-> 0])
       [] OTHER -> None]]

\* the occupied squares of a board
occupied(b) == { sq \in Squares : is_some(get_piece(b, sq[1], sq[2])) }

\* C19: loading the standard starting-position string succeeds and yields
\* exactly the standard layout: 32 pieces, the White back rank R N B Q K B N R
\* on rank 0 and White pawns on rank 1, Black pawns on rank 6 and the Black
\* back rank on rank 7, ranks 2..5 empty, every move-count 0, White to move,
\* no en-passant target, halfmove clock 0, fullmove number 1, empty history
\* and captured list, whatever an earlier load left on the board.
C19_StandardPosition ==
  [][FromFen(DEFAULT_BOARD)
       => /\ result' = OkRes
          /\ board'.pieces = standard_grid
          /\ Cardinality(occupied(board')) = 32
          /\ board'.turn = White
          /\ board'.en_passant = None
          /\ board'.halfmove_clock = 0
          /\ board'.fullmove_number = 1
          /\ board'.moves = << >>
          /\ board'.captured = << >>]_vars

\* C19 witness: the starting-position string has been loaded and the White
\* king and the Black queen stand on their squares.
C19_Witness ==
  /\ input = DEFAULT_BOARD
  /\ result = OkRes
  /\ get_piece(board, 4, 0) = Some([class |-> King, color |-> White, moves |-> 0])
  /\ get_piece(board, 3, 7) = Some([class |-> Queen, color |-> Black, moves |-> 0])

\* a non-empty string of digits
is_number(s) == s # << >> /\ \A i \in 1..Len(s) : s[i] \in 48..57

\* P N B R Q K and p n b r q k
PieceLetters == { 80, 78, 66, 82, 81, 75, 112, 110, 98, 114, 113, 107 }

\* fewer than six fields, a placement character that is neither a digit nor a
\* piece letter (nor the row separator), or a halfmove or fullmove field that
\* is not a non-negative integer
malformed_fen(s) ==
  LET parts == split(s, 32, << >>)
  IN \/ Len(parts) < 6
     \/ \E i \in 1..Len(parts[1]) :
          parts[1][i] \notin (48..57) \cup PieceLetters \cup { 47 }
     \/ ~is_number(parts[5])
     \/ ~is_number(parts[6])

\* C20: from_fen returns InvalidFen, not success and not a crash, whenever the
\* input has fewer than six space-separated fields, its placement field has a
\* character that is neither a digit nor one of the twelve piece letters, or
\* its halfmove or fullmove field is not a non-negative integer.
C20_MalformedFenRejected ==
  [][(FromFen(input') /\ malformed_fen(input')) => result'.kind = "InvalidFen"]_vars

(***************************************************************************)
(* Castling onto an own piece                                              *)
(***************************************************************************)
\* the king of the side to move stands unmoved on the e-file of its back
\* rank, the rook on the side of to_file is present and unmoved, and the
\* king's destination on the g- or c-file holds a piece of its own colour
castle_onto_own(b, to_file) ==
  LET rank == home_rank(b.turn)
      king == get_piece(b, 4, rank)
      dest == get_piece(b, to_file, rank)
  IN /\ king = Some([class |-> King, color |-> b.turn, moves |-> 0])
     /\ unmoved_rook(b, rook_file(to_file), rank, b.turn)
     /\ is_some(dest) /\ unwrap(dest).color = b.turn

\* C21 as stated: a king with move-count 0 attempting e1-g1, e1-c1, e8-g8 or
\* e8-c8 while a piece of its own colour occupies the destination (rook
\* present and unmoved) is rejected by the own-piece check, with
\* "Can't capture your own piece".
C21_RejectedByOwnPieceCheck ==
  first_seen =>
    \A to_file \in {2, 6} :
      castle_onto_own(board, to_file) =>
        validate(Move_new(4, home_rank(board.turn), to_file, home_rank(board.turn)),
                 board)
          = InvalidMove("Can't capture your own piece")

\* C21 amended: such an attempt is rejected by the King rule, with "King can
\* only move one square in any direction"; the own-piece check is not reached.
C21_RejectedByKingRule ==
  first_seen =>
    \A to_file \in {2, 6} :
      castle_onto_own(board, to_file) =>
        LET m == Move_new(4, home_rank(board.turn), to_file, home_rank(board.turn))
        IN /\ validate_king(m, board)
                = InvalidMove("King can only move one square in any direction")
           /\ validate(m, board) = validate_king(m, board)

\* C21 witness: Black's e8-g8 was rejected by the King rule with the knight
\* still on g8, the bishop gone from f8 and king and rook unmoved.
C21_Witness ==
  /\ result = InvalidMove("King can only move one square in any direction")
  /\ board.turn = Black
  /\ castle_onto_own(board, 6)
  /\ is_none(get_piece(board, 5, 7))

(***************************************************************************)
(* En passant                                                              *)
(***************************************************************************)
\* the rank of the square behind the destination of a, seen from its mover
victim_rank(a) ==
  IF a.piece.color = White THEN a.m.to_rank - 1 ELSE a.m.to_rank + 1

\* C22: whenever an accepted move lands on the current en-passant target, the
\* mover is a pawn, the square one rank behind the destination (White mover)
\* or ahead of it (Black mover) holds an enemy pawn, and exactly that pawn is
\* removed from the grid and appended to the captured list.
C22_EnPassantCapture ==
  [][(Accepted /\ is_en_passant(board, last_accepted(accepted').m.to_file,
                                last_accepted(accepted').m.to_rank))
       => LET a == last_accepted(accepted')
              victim == get_piece(board, a.m.to_file, victim_rank(a))
          IN /\ a.piece.class = Pawn
             /\ is_some(victim)
             /\ unwrap(victim).class = Pawn
             /\ unwrap(victim).color = other(a.piece.color)
             /\ is_none(get_piece(board', a.m.to_file, victim_rank(a)))
             /\ board'.captured = Append(board.captured, unwrap(victim))]_vars

\* C23: after an accepted pawn move that is not a straight two-square advance
\* (a one-square advance, a diagonal capture or an en-passant capture) the
\* en-passant target is none.
C23_OtherPawnMoveClearsTarget ==
  [][(Accepted /\ last_accepted(accepted').piece.class = Pawn
               /\ ~double_advance(last_accepted(accepted')))
       => board'.en_passant = None]_vars

(***************************************************************************)
(* Move counters, totality, conservation                                   *)
(***************************************************************************)
\* C24: an accepted move increments the moves counter of every piece it
\* relocates (the moved piece, and the rook relocated by castling) by exactly
\* 1 and leaves the counters of all other pieces unchanged, so each counter is
\* the number of times its piece has been relocated.
C24_MovesCountRelocations ==
  [][Accepted =>
       LET a == last_accepted(accepted')
           rank == a.m.to_rank
           rook_from == rook_file(a.m.to_file)
           rook_to == IF a.m.to_file = 6 THEN 5 ELSE 3
       IN /\ get_piece(board', a.m.to_file, a.m.to_rank)
               = Some([a.piece EXCEPT !.moves = @ + 1])
          /\ castled(a) =>
               /\ is_some(get_piece(board, rook_from, rank))
               /\ get_piece(board', rook_to, rank)
                    = Some([unwrap(get_piece(board, rook_from, rank))
                              EXCEPT !.moves = @ + 1])
          /\ \A sq \in Squares :
               (/\ sq # << a.m.to_file, a.m.to_rank >>
                /\ ~(castled(a) /\ sq = << rook_to, rank >>)
                /\ is_some(get_piece(board', sq[1], sq[2])))
                 => get_piece(board', sq[1], sq[2]) = get_piece(board, sq[1], sq[2])]_vars

\* C25: move_piece is total on in-bounds moves: for every move whose four
\* coordinates are in 0..7, a from-square equal to the to-square included, the
\* call completes with Ok or InvalidMove; the path walks stay on the grid and
\* apply never reads an empty square where it expects a piece.
C25_TotalOnInBoundsMoves ==
  [][(MovePiece(input) /\ valid4(input))
       => result'.kind \in {"Ok", "InvalidMove"}]_vars

\* the pieces on the grid of b, as the set of their squares of colour c
squares_of(b, c) ==
  { sq \in occupied(b) : unwrap(get_piece(b, sq[1], sq[2])).color = c }

\* C26: pieces are conserved: after every completed call the pieces on the
\* grid and the captured list together number 32; an accepted move removes at
\* most one piece from the grid, and a removed piece is of the colour opposite
\* to the mover and is appended to the captured list.
C26_PiecesConserved ==
  /\ [](result.kind # "Panic"
          => Cardinality(occupied(board)) + Len(board.captured) = 32)
  /\ [][Accepted =>
         LET a == last_accepted(accepted')
             lost == Cardinality(occupied(board)) - Cardinality(occupied(board'))
         IN /\ lost \in {0, 1}
            /\ Cardinality(squares_of(board', a.piece.color))
                 = Cardinality(squares_of(board, a.piece.color))
            /\ Len(board'.captured) = Len(board.captured) + lost
            /\ lost = 1 => board'.captured[Len(board'.captured)].color
                             = other(a.piece.color)]_vars

\* C27: an accepted king move of at most one square in each axis changes only
\* the king's origin and destination squares of the grid, also when the
\* destination is on the g-file or the c-file.
C27_KingStepFrame ==
  [][(/\ Accepted
      /\ last_accepted(accepted').piece.class = King
      /\ abs(last_accepted(accepted').m.to_file
               - last_accepted(accepted').m.from_file) <= 1
      /\ abs(last_accepted(accepted').m.to_rank
               - last_accepted(accepted').m.from_rank) <= 1)
       => LET a == last_accepted(accepted')
          IN \A sq \in Squares :
               (sq # << a.m.from_file, a.m.from_rank >>
                  /\ sq # << a.m.to_file, a.m.to_rank >>)
                 => get_piece(board', sq[1], sq[2]) = get_piece(board, sq[1], sq[2])]_vars

\* C28: a straight two-square pawn advance is accepted only if the square it
\* skips over is empty, and its destination as well.
C28_DoubleAdvancePathEmpty ==
  [][(Accepted /\ double_advance(last_accepted(accepted')))
       => LET a == last_accepted(accepted')
          IN /\ is_none(get_piece(board, skipped(a)[1], skipped(a)[2]))
             /\ is_none(get_piece(board, a.m.to_file, a.m.to_rank))]_vars

====
